---------------------------- MODULE Spec2Model ----------------------------
(***************************************************************************)
(* TaggerOptions (FinnPos, src/tagger/TaggerOptions.cc): the options       *)
(* record of the tagger, its line-oriented text parser, its binary codec   *)
(* (store / load) and its equality predicate.                              *)
(*                                                                         *)
(* Strings are sequences of one-character strings, so that despace, find,  *)
(* strip, atoi and atof are computed character by character as libc and    *)
(* std::string compute them.                                               *)
(*                                                                         *)
(* A C++ float is the record [nan, w, t]: not-a-number, or the value       *)
(* w + t / FracUnit with w and t of the same sign.  Fractions are kept to  *)
(* 1/FracUnit; whole numbers keep the 24-bit significand of the 32-bit     *)
(* format (ToFloat), which is where the codec loses information.           *)
(***************************************************************************)
EXTENDS Integers, Sequences, FiniteSets, TLC

VARIABLES
    options,       \* the record built by a constructor
    pc,            \* position of the text constructor, or the exception it threw
    in,            \* state of the text stream: "good", "eof" (eofbit), "fail"
    counter,       \* the caller's line counter (unsigned int &counter)
    counter0,      \* the value the caller's counter had before the call
    consumed,      \* the lines getline has extracted so far (indices of ConfigLines)
    bin,           \* the binary stream: the two vectors and the stream's failbit
    options_copy,  \* the record load() is called on
    lstat,         \* outcome of load(): "idle", "loaded", "ReadFailed", "BadBinary"
    msg_out,       \* the diagnostic sink of load()
    eqres          \* outcome of the last operator==: "none", "equal", "unequal"

vars ==
    <<options, pc, in, counter, counter0, consumed,
      bin, options_copy, lstat, msg_out, eqres>>

textVars ==
    <<pc, in, counter, counter0, consumed>>

binVars ==
    <<bin, options_copy, lstat, msg_out, eqres>>

---------------------------------------------------------------------------
(* Bounds of the model.                                                    *)

\* lines one text input holds at most
MaxLines == 3

---------------------------------------------------------------------------
(* Enumerations (TaggerOptions.hh), by ordinal.                            *)

AVG_PERC == 0
ML == 1

MAP == 0
MARGINAL == 1

NONE == 0
L1 == 1
L2 == 2

---------------------------------------------------------------------------
(* float                                                                   *)

\* resolution of the fractional part: ten-thousandths
FracUnit == 10 ^ 4

\* significand bits of a 32-bit float
FloatMantissa == 24

Abs(x) == IF x < 0 THEN 0 - x ELSE x

FloatOf(w, t) == [nan |-> FALSE, w |-> w, t |-> t]

NaN == [nan |-> TRUE, w |-> 0, t |-> 0]

\* f < 0 (false for NaN)
FloatNegative(f) == ~f.nan /\ (f.w < 0 \/ f.t < 0)

\* distance between neighbouring floats at magnitude n (n >= 0)
RECURSIVE Ulp(_)
Ulp(n) == IF n < 2 ^ FloatMantissa THEN 1 ELSE 2 * Ulp(n \div 2)

\* nearest multiple of Ulp(n), ties to the even significand (n >= 0)
RoundNearestEven(n) ==
    LET u == Ulp(n)
        q == n \div u
        r == n % u
    IN  IF 2 * r < u THEN q * u
        ELSE IF 2 * r > u THEN (q + 1) * u
        ELSE IF q % 2 = 0 THEN q * u
        ELSE (q + 1) * u

\* int or unsigned int -> float (std::vector<float>::push_back of an integer)
ToFloat(n) ==
    IF n < 0 THEN FloatOf(0 - RoundNearestEven(0 - n), 0)
    ELSE FloatOf(RoundNearestEven(n), 0)

\* float -> int or unsigned int: truncation towards zero
Truncate(f) == f.w

\* bool <- unsigned int
ToBool(n) == IF n = 0 THEN 0 ELSE 1

\* fabs(f1 - f2) < 0.001
float_eq(f1, f2) ==
    IF f1.nan \/ f2.nan THEN FALSE
    ELSE LET d == f1.w - f2.w
         IN  IF Abs(d) > 1 THEN FALSE
             ELSE Abs(d * FracUnit + f1.t - f2.t) * 1000 < FracUnit

---------------------------------------------------------------------------
(* Strings                                                                 *)

estimator_id ==
    <<"e", "s", "t", "i", "m", "a", "t", "o", "r", "=">>
inference_id ==
    <<"i", "n", "f", "e", "r", "e", "n", "c", "e", "=">>
suffix_length_id ==
    <<"s", "u", "f", "f", "i", "x", "_", "l", "e", "n", "g", "t", "h", "=">>
degree_id ==
    <<"d", "e", "g", "r", "e", "e", "=">>
max_train_passes_id ==
    <<"m", "a", "x", "_", "t", "r", "a", "i", "n", "_", "p", "a", "s", "s", "e", "s", "=">>
max_lemmatizer_passes_id ==
    <<"m", "a", "x", "_", "l", "e", "m", "m", "a", "t", "i", "z", "e", "r", "_", "p", "a", "s", "s", "e", "s", "=">>
max_useless_passes_id ==
    <<"m", "a", "x", "_", "u", "s", "e", "l", "e", "s", "s", "_", "p", "a", "s", "s", "e", "s", "=">>
guess_mass_id ==
    <<"g", "u", "e", "s", "s", "_", "m", "a", "s", "s", "=">>
beam_id ==
    <<"b", "e", "a", "m", "=">>
beam_mass_id ==
    <<"b", "e", "a", "m", "_", "m", "a", "s", "s", "=">>
regularization_id ==
    <<"r", "e", "g", "u", "l", "a", "r", "i", "z", "a", "t", "i", "o", "n", "=">>
delta_id ==
    <<"d", "e", "l", "t", "a", "=">>
sigma_id ==
    <<"s", "i", "g", "m", "a", "=">>
use_label_dictionary_id ==
    <<"u", "s", "e", "_", "l", "a", "b", "e", "l", "_", "d", "i", "c", "t", "i", "o", "n", "a", "r", "y", "=">>
tok_AVG_PERC ==
    <<"A", "V", "G", "_", "P", "E", "R", "C">>
tok_ML ==
    <<"M", "L">>
tok_MAP ==
    <<"M", "A", "P">>
tok_MARGINAL ==
    <<"M", "A", "R", "G", "I", "N", "A", "L">>
tok_NONE ==
    <<"N", "O", "N", "E">>
tok_L1 ==
    <<"L", "1">>
tok_L2 ==
    <<"L", "2">>

npos == 0 - 1

\* std::string::find: 0-based position of the first occurrence, or npos
find(str, pat) ==
    LET hits == {i \in 0..(Len(str) - Len(pat)) :
                    SubSeq(str, i + 1, i + Len(pat)) = pat}
    IN  IF hits = {} THEN npos
        ELSE CHOOSE i \in hits : \A j \in hits : i <= j

substr(str, pos) == SubSeq(str, pos + 1, Len(str))

despace(line) ==
    SelectSeq(line, LAMBDA c : c # " " /\ c # "\t" /\ c # "\r")

\* strip that forgets the length of the prefix
strip_keeps_prefix(str, prefix) == substr(str, find(str, prefix))

strip(str, prefix) == substr(str, find(str, prefix) + Len(prefix))

DigitVal ==
    "0" :> 0 @@ "1" :> 1 @@ "2" :> 2 @@ "3" :> 3 @@ "4" :> 4 @@
    "5" :> 5 @@ "6" :> 6 @@ "7" :> 7 @@ "8" :> 8 @@ "9" :> 9

IsDigitAt(str, i) == i <= Len(str) /\ str[i] \in DOMAIN DigitVal

\* value of the digits of str from position i on, after the digits acc
RECURSIVE DigitsValue(_, _, _)
DigitsValue(str, i, acc) ==
    IF IsDigitAt(str, i) THEN DigitsValue(str, i + 1, acc * 10 + DigitVal[str[i]])
    ELSE acc

\* position after the digits of str that start at position i
RECURSIVE DigitsEnd(_, _)
DigitsEnd(str, i) == IF IsDigitAt(str, i) THEN DigitsEnd(str, i + 1) ELSE i

\* the fraction digits of str from position i on, in units of 1/unit
RECURSIVE FractionValue(_, _, _)
FractionValue(str, i, unit) ==
    IF unit = 1 \/ ~IsDigitAt(str, i) THEN 0
    ELSE DigitVal[str[i]] * (unit \div 10) + FractionValue(str, i + 1, unit \div 10)

HasSign(str) == Len(str) >= 1 /\ str[1] \in {"-", "+"}

IsMinus(str) == Len(str) >= 1 /\ str[1] = "-"

\* atoi: optional sign, then the decimal digits; anything else ends the number
atoi(str) ==
    LET start == IF HasSign(str) THEN 2 ELSE 1
        v == DigitsValue(str, start, 0)
    IN  IF IsMinus(str) THEN 0 - v ELSE v

\* atof: optional sign, digits, optional point and digits
atof(str) ==
    LET start == IF HasSign(str) THEN 2 ELSE 1
        w == DigitsValue(str, start, 0)
        e == DigitsEnd(str, start)
        t == IF e <= Len(str) /\ str[e] = "." THEN FractionValue(str, e + 1, FracUnit)
             ELSE 0
    IN  IF IsMinus(str) THEN FloatOf(0 - w, 0 - t) ELSE FloatOf(w, t)

---------------------------------------------------------------------------
(* Value converters of the text parser.  A converter returns the value     *)
(* and the exception it throws ("none" when it returns normally).          *)

Returns(v) == [exc |-> "none", val |-> v]

Throws(e) == [exc |-> e, val |-> 0]

get_estimator(str) ==
    IF find(str, tok_AVG_PERC) = 0 THEN Returns(AVG_PERC)
    ELSE IF find(str, tok_ML) = 0 THEN Returns(ML)
    ELSE Throws("SyntaxError")

get_inference(str) ==
    IF find(str, tok_MAP) = 0 THEN Returns(MAP)
    ELSE IF find(str, tok_MARGINAL) = 0 THEN Returns(MARGINAL)
    ELSE Throws("SyntaxError")

get_regularization(str) ==
    IF find(str, tok_NONE) = 0 THEN Returns(NONE)
    ELSE IF find(str, tok_L1) = 0 THEN Returns(L1)
    ELSE IF find(str, tok_L2) = 0 THEN Returns(L2)
    ELSE Throws("SyntaxError")

\* get_uint without the range check
get_uint_unchecked(str) == Returns(Abs(atoi(str)))

get_uint(str) ==
    LET i == atoi(str)
    IN  IF i < 0 THEN Throws("NumericalRangeError") ELSE Returns(i)

get_int(str) == Returns(atoi(str))

\* get_float without the range check
get_float_unchecked(str) == Returns(atof(str))

get_float(str) ==
    LET f == atof(str)
    IN  IF FloatNegative(f) THEN Throws("NumericalRangeError") ELSE Returns(f)

---------------------------------------------------------------------------
(* The options record                                                      *)

FieldNames ==
    <<"estimator", "inference", "suffix_length", "degree", "max_train_passes",
      "max_lemmatizer_passes", "max_useless_passes", "guess_mass", "beam",
      "beam_mass", "regularization", "delta", "sigma", "use_label_dictionary">>

KnownFields == {FieldNames[i] : i \in DOMAIN FieldNames}

FloatFields == {"guess_mass", "beam_mass", "delta", "sigma"}

\* the member initialisers of TaggerOptions(std::istream &, unsigned int &)
Defaults ==
    [estimator |-> AVG_PERC,
     inference |-> MAP,
     suffix_length |-> 10,
     degree |-> 2,
     max_train_passes |-> 50,
     max_lemmatizer_passes |-> 50,
     max_useless_passes |-> 3,
     guess_mass |-> FloatOf(0, 99 * (FracUnit \div 100)),
     beam |-> 0 - 1,
     beam_mass |-> FloatOf(0 - 1, 0),
     regularization |-> NONE,
     delta |-> FloatOf(0 - 1, 0),
     sigma |-> FloatOf(0 - 1, 0),
     use_label_dictionary |-> ToBool(1)]

---------------------------------------------------------------------------
(* Text parser: TaggerOptions(std::istream &in, unsigned int &counter)     *)

\* field = converter(...): the assignment happens unless the converter throws
Assign(o, field, r) ==
    IF r.exc = "none" THEN [exc |-> "none", o |-> [o EXCEPT ![field] = r.val]]
    ELSE [exc |-> r.exc, o |-> o]

Has(line, id) == find(line, id) # npos

\* use_label_dictionary = get_uint(...): the unsigned value becomes a bool
get_bool(str) ==
    LET r == get_uint(str)
    IN  IF r.exc = "none" THEN Returns(ToBool(r.val)) ELSE r

\* the chain of key tests on a despaced line that is neither empty nor a comment
ParseAssignment(o, line) ==
    IF Has(line, estimator_id)
        THEN Assign(o, "estimator", get_estimator(strip(line, estimator_id)))
    ELSE IF Has(line, inference_id)
        THEN Assign(o, "inference", get_inference(strip(line, inference_id)))
    ELSE IF Has(line, suffix_length_id)
        THEN Assign(o, "suffix_length", get_uint(strip(line, suffix_length_id)))
    ELSE IF Has(line, degree_id)
        THEN Assign(o, "degree", get_uint(strip(line, degree_id)))
    ELSE IF Has(line, max_train_passes_id)
        THEN Assign(o, "max_train_passes",
                    get_uint(strip(line, max_train_passes_id)))
    ELSE IF Has(line, max_lemmatizer_passes_id)
        THEN Assign(o, "max_lemmatizer_passes",
                    get_uint(strip(line, max_lemmatizer_passes_id)))
    ELSE IF Has(line, max_useless_passes_id)
        THEN Assign(o, "max_useless_passes",
                    get_uint(strip(line, max_useless_passes_id)))
    ELSE IF Has(line, guess_mass_id)
        THEN Assign(o, "guess_mass", get_float(strip(line, guess_mass_id)))
    ELSE IF Has(line, beam_id)
        THEN Assign(o, "beam", get_int(strip(line, beam_id)))
    ELSE IF Has(line, beam_mass_id)
        THEN Assign(o, "beam_mass", get_float(strip(line, beam_mass_id)))
    ELSE IF Has(line, regularization_id)
        THEN Assign(o, "regularization",
                    get_regularization(strip(line, regularization_id)))
    ELSE IF Has(line, delta_id)
        THEN Assign(o, "delta", get_float(strip(line, delta_id)))
    ELSE IF Has(line, sigma_id)
        THEN Assign(o, "sigma", get_float(strip(line, sigma_id)))
    ELSE IF Has(line, use_label_dictionary_id)
        THEN Assign(o, "use_label_dictionary",
                    get_bool(strip(line, use_label_dictionary_id)))
    ELSE [exc |-> "SyntaxError", o |-> o]

\* the loop body with ++counter placed after the two skips
LoopBody_counts_after_skips(o, c, raw) ==
    LET line == despace(raw)
    IN  IF Len(line) = 0 THEN [exc |-> "none", o |-> o, counter |-> c]
        ELSE IF line[1] = "#" THEN [exc |-> "none", o |-> o, counter |-> c]
        ELSE LET r == ParseAssignment(o, line)
             IN  [exc |-> r.exc, o |-> r.o, counter |-> c + 1]

\* the loop body after getline, on the line getline returned: the record, the
\* counter and the exception thrown ("none" when the body reaches its end)
LoopBody(o, c, raw) ==
    LET line == despace(raw)
        r == IF Len(line) = 0 THEN [exc |-> "none", o |-> o]
             ELSE IF line[1] = "#" THEN [exc |-> "none", o |-> o]
             ELSE ParseAssignment(o, line)
    IN  [exc |-> r.exc, o |-> r.o, counter |-> c + 1]

---------------------------------------------------------------------------
(* The lines a text input is made of.  text is what getline returns; kind, *)
(* key and val say what the line is: "blank", "comment", "assign" (key=val *)
(* with a value of the key's vocabulary or a non-negative number; any      *)
(* integer for beam), "nokey" (no recognized key), "badvalue" (an enum     *)
(* value outside the vocabulary), "negative" (a negative literal for a     *)
(* non-negative field), "sentinel" (a negative literal for beam_mass,      *)
(* delta or sigma).                                                        *)

ConfigLines == <<
    [text |-> <<>>,
     kind |-> "blank", key |-> "none", val |-> 0],
    [text |-> <<" ", "\t", "\r">>,
     kind |-> "blank", key |-> "none", val |-> 0],
    [text |-> <<"#", " ", "s", "i", "g", "m", "a", " ", "=", " ", "5">>,
     kind |-> "comment", key |-> "none", val |-> 0],
    [text |-> <<"s", "i", "g", "m", "a", " ", "=", " ", "1">>,
     kind |-> "assign", key |-> "sigma", val |-> FloatOf(1, 0)],
    [text |-> <<"d", "e", "l", "t", "a", " ", "=", " ", "2">>,
     kind |-> "assign", key |-> "delta", val |-> FloatOf(2, 0)],
    [text |-> <<"r", "e", "g", "u", "l", "a", "r", "i", "z", "a", "t", "i", "o", "n", "=", "L", "1">>,
     kind |-> "assign", key |-> "regularization", val |-> L1],
    [text |-> <<"b", "e", "a", "m", "=", "3">>,
     kind |-> "assign", key |-> "beam", val |-> 3],
    [text |-> <<"b", "e", "a", "m", "=", "-", "3">>,
     kind |-> "assign", key |-> "beam", val |-> 0 - 3],
    [text |-> <<"g", "u", "e", "s", "s", "_", "m", "a", "s", "s", "=", "0", ".", "9", "9", "9", "9">>,
     kind |-> "assign", key |-> "guess_mass", val |-> FloatOf(0, 9999)],
    [text |-> <<"m", "a", "x", "_", "u", "s", "e", "l", "e", "s", "s", "_", "p", "a", "s", "s", "e", "s", " ", "=", "5">>,
     kind |-> "assign", key |-> "max_useless_passes", val |-> 5],
    [text |-> <<"m", "a", "x", "_", "t", "r", "a", "i", "n", "_", "p", "a", "s", "s", "e", "s", " ", "=", "6">>,
     kind |-> "assign", key |-> "max_train_passes", val |-> 6],
    [text |-> <<"m", "a", "x", "_", "l", "e", "m", "m", "a", "t", "i", "z", "e", "r", "_", "p", "a", "s", "s", "e", "s", " ", "=", "6">>,
     kind |-> "assign", key |-> "max_lemmatizer_passes", val |-> 6],
    [text |-> <<"d", "e", "g", "r", "e", "e", " ", "=", "7">>,
     kind |-> "assign", key |-> "degree", val |-> 7],
    [text |-> <<"s", "u", "f", "f", "i", "x", "_", "l", "e", "n", "g", "t", "h", " ", "=", "8">>,
     kind |-> "assign", key |-> "suffix_length", val |-> 8],
    [text |-> <<"i", "n", "f", "e", "r", "e", "n", "c", "e", " ", "=", "M", "A", "R", "G", "I", "N", "A", "L">>,
     kind |-> "assign", key |-> "inference", val |-> MARGINAL],
    [text |-> <<"e", "s", "t", "i", "m", "a", "t", "o", "r", "=", "M", "L">>,
     kind |-> "assign", key |-> "estimator", val |-> ML],
    [text |-> <<"b", "e", "a", "m", "_", "m", "a", "s", "s", "=", "6">>,
     kind |-> "assign", key |-> "beam_mass", val |-> FloatOf(6, 0)],
    [text |-> <<"u", "s", "e", "_", "l", "a", "b", "e", "l", "_", "d", "i", "c", "t", "i", "o", "n", "a", "r", "y", "=", "0">>,
     kind |-> "assign", key |-> "use_label_dictionary", val |-> 0],
    [text |-> <<"m", "a", "x", "_", "u", "s", "e", "l", "e", "s", "s", "_", "p", "a", "s", "s", "e", "S", "S", "S", " ", "=", "5">>,
     kind |-> "nokey", key |-> "none", val |-> 0],
    [text |-> <<"e", "s", "t", "i", "m", "a", "t", "o", "r", "=", "X", "X">>,
     kind |-> "badvalue", key |-> "estimator", val |-> 0],
    [text |-> <<"s", "u", "f", "f", "i", "x", "_", "l", "e", "n", "g", "t", "h", "=", "-", "1">>,
     kind |-> "negative", key |-> "suffix_length", val |-> 0],
    [text |-> <<"d", "e", "g", "r", "e", "e", " ", "=", " ", "-", "2">>,
     kind |-> "negative", key |-> "degree", val |-> 0],
    [text |-> <<"m", "a", "x", "_", "t", "r", "a", "i", "n", "_", "p", "a", "s", "s", "e", "s", "=", "-", "1">>,
     kind |-> "negative", key |-> "max_train_passes", val |-> 0],
    [text |-> <<"m", "a", "x", "_", "l", "e", "m", "m", "a", "t", "i", "z", "e", "r", "_", "p", "a", "s", "s", "e", "s", "=", "-", "1">>,
     kind |-> "negative", key |-> "max_lemmatizer_passes", val |-> 0],
    [text |-> <<"m", "a", "x", "_", "u", "s", "e", "l", "e", "s", "s", "_", "p", "a", "s", "s", "e", "s", "=", "-", "1">>,
     kind |-> "negative", key |-> "max_useless_passes", val |-> 0],
    [text |-> <<"u", "s", "e", "_", "l", "a", "b", "e", "l", "_", "d", "i", "c", "t", "i", "o", "n", "a", "r", "y", "=", "-", "1">>,
     kind |-> "negative", key |-> "use_label_dictionary", val |-> 0],
    [text |-> <<"g", "u", "e", "s", "s", "_", "m", "a", "s", "s", "=", "-", "0", ".", "5">>,
     kind |-> "negative", key |-> "guess_mass", val |-> 0],
    [text |-> <<"d", "e", "l", "t", "a", "=", "-", "5">>,
     kind |-> "sentinel", key |-> "delta", val |-> FloatOf(0 - 5, 0)],
    [text |-> <<"b", "e", "a", "m", "_", "m", "a", "s", "s", "=", "-", "5">>,
     kind |-> "sentinel", key |-> "beam_mass", val |-> FloatOf(0 - 5, 0)],
    [text |-> <<"s", "i", "g", "m", "a", "=", "-", "5">>,
     kind |-> "sentinel", key |-> "sigma", val |-> FloatOf(0 - 5, 0)]
  >>

LineIds == DOMAIN ConfigLines

\* the values the caller's counter may hold before the call
CallerCounters == {0, 4}

\* TaggerOptions(void) initialises no member: the members are indeterminate
Indeterminate ==
    {[estimator |-> ML,
      inference |-> MARGINAL,
      suffix_length |-> 0,
      degree |-> 0,
      max_train_passes |-> 0,
      max_lemmatizer_passes |-> 0,
      max_useless_passes |-> 0,
      guess_mass |-> FloatOf(0, 0),
      beam |-> 0,
      beam_mass |-> FloatOf(0, 0),
      regularization |-> L2,
      delta |-> FloatOf(0, 0),
      sigma |-> FloatOf(0, 0),
      use_label_dictionary |-> 0],
     [estimator |-> AVG_PERC,
      inference |-> MAP,
      suffix_length |-> 77,
      degree |-> 77,
      max_train_passes |-> 77,
      max_lemmatizer_passes |-> 77,
      max_useless_passes |-> 77,
      guess_mass |-> FloatOf(77, 0),
      beam |-> 77,
      beam_mass |-> FloatOf(77, 0),
      regularization |-> NONE,
      delta |-> FloatOf(77, 0),
      sigma |-> FloatOf(77, 0),
      use_label_dictionary |-> 1]}

\* a stream nothing was written to: reading it sets the failbit
EmptyStream == [names |-> <<>>, values |-> <<>>, fail |-> TRUE, edits |-> 0]

InitText ==
    /\ options = Defaults
    /\ pc = "parsing"
    /\ in = "good"
    /\ counter \in CallerCounters
    /\ counter0 = counter
    /\ consumed = <<>>
    /\ bin = EmptyStream
    /\ options_copy = Defaults
    /\ lstat = "idle"
    /\ msg_out = <<>>
    /\ eqres = "none"

\* while (in) { getline(in, line); ... }: getline extracts line i of the input,
\* ended by a newline (nl) or by the end of the input (a last line without
\* newline, which sets eofbit only), and the loop body runs on it
ReadLine ==
    /\ pc = "parsing"
    /\ in = "good"
    /\ Len(consumed) < MaxLines
    /\ \E i \in LineIds, nl \in BOOLEAN :
          /\ nl \/ Len(ConfigLines[i].text) > 0
          /\ LET r == LoopBody(options, counter, ConfigLines[i].text)
             IN  /\ options' = r.o
                 /\ counter' = r.counter
                 /\ pc' = IF r.exc = "none" THEN "parsing" ELSE r.exc
          /\ consumed' = Append(consumed, i)
          /\ in' = IF nl THEN "good" ELSE "eof"
    /\ UNCHANGED <<counter0, binVars>>

\* while (in) is still true when only eofbit is set or the input is exhausted:
\* getline extracts nothing and sets failbit, the body runs on the empty line,
\* and the loop ends
ReadPastEnd ==
    /\ pc = "parsing"
    /\ in \in {"good", "eof"}
    /\ LET r == LoopBody(options, counter, <<>>)
       IN  /\ options' = r.o
           /\ counter' = r.counter
           /\ pc' = IF r.exc = "none" THEN "done" ELSE r.exc
    /\ in' = "fail"
    /\ UNCHANGED <<counter0, consumed, binVars>>

NextText == ReadLine \/ ReadPastEnd

SpecText == InitText /\ [][NextText]_vars

---------------------------------------------------------------------------
(* Records built by the fourteen-argument constructor                      *)

TaggerOptions(estimator, inference, suffix_length, degree, max_train_passes, max_lemmatizer_passes, max_useless_passes, guess_mass, beam, beam_mass, regularization, delta, sigma, use_label_dictionary) ==
    [estimator |-> estimator,
     inference |-> inference,
     suffix_length |-> suffix_length,
     degree |-> degree,
     max_train_passes |-> max_train_passes,
     max_lemmatizer_passes |-> max_lemmatizer_passes,
     max_useless_passes |-> max_useless_passes,
     guess_mass |-> guess_mass,
     beam |-> beam,
     beam_mass |-> beam_mass,
     regularization |-> regularization,
     delta |-> delta,
     sigma |-> sigma,
     use_label_dictionary |-> ToBool(use_label_dictionary)]

\* the record the text of main() describes
TestRecord ==
    TaggerOptions(ML, MARGINAL, 8, 7, 6, 6, 5, FloatOf(0, FracUnit - 1), 3,
                  FloatOf(6, 0), L1, FloatOf(2, 0), FloatOf(1, 0), 0)

\* the record of the defaults with one argument replaced
With(field, value) == [Defaults EXCEPT ![field] = value]

\* the first whole number a float cannot hold exactly is Exact + 1
Exact == 2 ^ FloatMantissa

\* arguments of the constructor the codec is exercised on
BinaryRecords ==
    {Defaults, TestRecord,
     With("beam", 0 - 5),
     With("suffix_length", Exact),
     With("suffix_length", Exact + 1),
     With("max_useless_passes", Exact + 3),
     With("degree", 2 * Exact + 2),
     With("beam", 0 - (Exact + 1)),
     With("guess_mass", NaN)}

\* arguments of the constructor operator== is exercised on: the defaults, and
\* the defaults with one field changed
EqRecords ==
    {Defaults,
     With("estimator", ML),
     With("inference", MARGINAL),
     With("suffix_length", 8),
     With("degree", 7),
     With("max_train_passes", 6),
     With("max_lemmatizer_passes", 6),
     With("max_useless_passes", 5),
     With("guess_mass", FloatOf(0, FracUnit - 1)),
     With("guess_mass", FloatOf(0, 9905 * (FracUnit \div 10000))),
     With("guess_mass", NaN),
     With("beam", 3),
     With("beam_mass", FloatOf(6, 0)),
     With("beam_mass", FloatOf(0 - 1, 0 - 5 * (FracUnit \div 10000))),
     With("regularization", L1),
     With("regularization", L2),
     With("delta", FloatOf(2, 0)),
     With("sigma", FloatOf(1, 0)),
     With("use_label_dictionary", 0)}

---------------------------------------------------------------------------
(* Binary codec                                                            *)

\* store that pushes the values of beam and beam_mass in the other order
store_swapped(o) ==
    [names |-> FieldNames,
     values |-> <<ToFloat(o.estimator),
                  ToFloat(o.inference),
                  ToFloat(o.suffix_length),
                  ToFloat(o.degree),
                  ToFloat(o.max_train_passes),
                  ToFloat(o.max_lemmatizer_passes),
                  ToFloat(o.max_useless_passes),
                  o.guess_mass,
                  o.beam_mass,
                  ToFloat(o.beam),
                  ToFloat(o.regularization),
                  o.delta,
                  o.sigma,
                  ToFloat(o.use_label_dictionary)>>,
     fail |-> FALSE,
     edits |-> 0]

\* store: the two vectors handed to write_vector
store(o) ==
    [names |-> FieldNames,
     values |-> <<ToFloat(o.estimator),
                  ToFloat(o.inference),
                  ToFloat(o.suffix_length),
                  ToFloat(o.degree),
                  ToFloat(o.max_train_passes),
                  ToFloat(o.max_lemmatizer_passes),
                  ToFloat(o.max_useless_passes),
                  o.guess_mass,
                  ToFloat(o.beam),
                  o.beam_mass,
                  ToFloat(o.regularization),
                  o.delta,
                  o.sigma,
                  ToFloat(o.use_label_dictionary)>>,
     fail |-> FALSE,
     edits |-> 0]

\* one pass of the loop of load: the record and the sink after pair (name, f)
LoadPair(r, name, f) ==
    IF name = "estimator" THEN [r EXCEPT !.o.estimator = Truncate(f)]
    ELSE IF name = "inference" THEN [r EXCEPT !.o.inference = Truncate(f)]
    ELSE IF name = "suffix_length" THEN [r EXCEPT !.o.suffix_length = Truncate(f)]
    ELSE IF name = "degree" THEN [r EXCEPT !.o.degree = Truncate(f)]
    ELSE IF name = "max_train_passes"
        THEN [r EXCEPT !.o.max_train_passes = Truncate(f)]
    ELSE IF name = "max_lemmatizer_passes"
        THEN [r EXCEPT !.o.max_lemmatizer_passes = Truncate(f)]
    ELSE IF name = "max_useless_passes"
        THEN [r EXCEPT !.o.max_useless_passes = Truncate(f)]
    ELSE IF name = "guess_mass" THEN [r EXCEPT !.o.guess_mass = f]
    ELSE IF name = "beam" THEN [r EXCEPT !.o.beam = Truncate(f)]
    ELSE IF name = "beam_mass" THEN [r EXCEPT !.o.beam_mass = f]
    ELSE IF name = "regularization" THEN [r EXCEPT !.o.regularization = Truncate(f)]
    ELSE IF name = "delta" THEN [r EXCEPT !.o.delta = f]
    ELSE IF name = "sigma" THEN [r EXCEPT !.o.sigma = f]
    ELSE IF name = "use_label_dictionary"
        THEN [r EXCEPT !.o.use_label_dictionary = ToBool(Truncate(f))]
    ELSE [r EXCEPT !.msgs = Append(@, name)]

\* the loop of load leaving at the first unknown name, after its diagnostic
RECURSIVE LoadLoop_stops_at_unknown(_, _, _, _)
LoadLoop_stops_at_unknown(r, names, values, i) ==
    IF i > Len(names) THEN r
    ELSE IF names[i] \notin KnownFields THEN LoadPair(r, names[i], values[i])
    ELSE LoadLoop_stops_at_unknown(LoadPair(r, names[i], values[i]),
                                   names, values, i + 1)

\* the loop of load from pair i on
RECURSIVE LoadLoop(_, _, _, _)
LoadLoop(r, names, values, i) ==
    IF i > Len(names) THEN r
    ELSE LoadLoop(LoadPair(r, names[i], values[i]), names, values, i + 1)

\* load that throws BadBinary only when the names outnumber the values
load_more_names_only(o, b, msgs) ==
    IF b.fail THEN [exc |-> "ReadFailed", o |-> o, msgs |-> msgs]
    ELSE IF Len(b.names) > Len(b.values)
        THEN [exc |-> "BadBinary", o |-> o, msgs |-> msgs]
    ELSE LoadLoop([exc |-> "none", o |-> o, msgs |-> msgs], b.names, b.values, 1)

\* load that assigns the pairs it has before it makes its two checks
load_checks_last(o, b, msgs) ==
    LET n == IF Len(b.names) < Len(b.values) THEN Len(b.names) ELSE Len(b.values)
        r == LoadLoop([exc |-> "none", o |-> o, msgs |-> msgs],
                      SubSeq(b.names, 1, n), SubSeq(b.values, 1, n), 1)
    IN  IF b.fail THEN [r EXCEPT !.exc = "ReadFailed"]
        ELSE IF Len(b.names) # Len(b.values) THEN [r EXCEPT !.exc = "BadBinary"]
        ELSE r

\* load: the record, the sink and the exception thrown ("none": it returns)
load(o, b, msgs) ==
    IF b.fail THEN [exc |-> "ReadFailed", o |-> o, msgs |-> msgs]
    ELSE IF Len(b.names) # Len(b.values)
        THEN [exc |-> "BadBinary", o |-> o, msgs |-> msgs]
    ELSE LoadLoop([exc |-> "none", o |-> o, msgs |-> msgs], b.names, b.values, 1)

---------------------------------------------------------------------------
(* operator==                                                              *)

\* same: another is this very object
Equals(a, b, same) ==
    IF same THEN TRUE
    ELSE /\ a.estimator = b.estimator
         /\ a.inference = b.inference
         /\ a.suffix_length = b.suffix_length
         /\ a.degree = b.degree
         /\ a.max_train_passes = b.max_train_passes
         /\ a.max_lemmatizer_passes = b.max_lemmatizer_passes
         /\ float_eq(a.guess_mass, b.guess_mass)
         /\ a.beam = b.beam
         /\ float_eq(a.beam_mass, b.beam_mass)
         /\ a.regularization = b.regularization
         /\ float_eq(a.delta, b.delta)
         /\ float_eq(a.sigma, b.sigma)
         /\ a.use_label_dictionary = b.use_label_dictionary

---------------------------------------------------------------------------
(* The codec as a state machine: a record is stored, the stream may reach  *)
(* the reader as written, as a writer with another field set would have    *)
(* written it, or damaged; then it is loaded into options_copy.            *)

\* changes made to one stored stream at most
MaxEdits == 2

\* field names this version does not know
UnknownNames == {"lemmatizer_beam"}

\* the value stored under an unknown name
UnknownValue == FloatOf(4, 0)

InsertAt(seq, i, x) == SubSeq(seq, 1, i - 1) \o <<x>> \o SubSeq(seq, i, Len(seq))

RemoveAt(seq, i) == SubSeq(seq, 1, i - 1) \o SubSeq(seq, i + 1, Len(seq))

InitBinary ==
    /\ options \in BinaryRecords
    /\ pc = "constructed"
    /\ in = "good"
    /\ counter = 0
    /\ counter0 = 0
    /\ consumed = <<>>
    /\ bin = EmptyStream
    /\ options_copy \in Indeterminate
    /\ lstat = "idle"
    /\ msg_out = <<>>
    /\ eqres = "none"

Editable ==
    /\ lstat = "idle"
    /\ bin # EmptyStream
    /\ bin.edits < MaxEdits

\* options.store(opt_out)
Store ==
    /\ lstat = "idle"
    /\ bin = EmptyStream
    /\ bin' = store(options)
    /\ UNCHANGED <<options, textVars, options_copy, lstat, msg_out, eqres>>

\* a writer that knows one more field wrote the stream
InsertPair ==
    /\ Editable
    /\ Len(bin.names) = Len(bin.values)
    /\ \E i \in 1..(Len(bin.names) + 1), n \in UnknownNames :
          bin' = [bin EXCEPT !.names = InsertAt(@, i, n),
                             !.values = InsertAt(@, i, UnknownValue),
                             !.edits = @ + 1]
    /\ UNCHANGED <<options, textVars, options_copy, lstat, msg_out, eqres>>

\* a writer that did not know the last field yet wrote the stream
RemoveLastPair ==
    /\ Editable
    /\ Len(bin.names) = Len(bin.values)
    /\ Len(bin.names) > 0
    /\ bin' = [bin EXCEPT !.names = RemoveAt(@, Len(@)),
                          !.values = RemoveAt(@, Len(@)),
                          !.edits = @ + 1]
    /\ UNCHANGED <<options, textVars, options_copy, lstat, msg_out, eqres>>

\* damage: the name vector lost its last element, or all of them
TruncateNames ==
    /\ Editable
    /\ Len(bin.names) > 0
    /\ \E n \in {0, Len(bin.names) - 1} :
          bin' = [bin EXCEPT !.names = SubSeq(@, 1, n), !.edits = @ + 1]
    /\ UNCHANGED <<options, textVars, options_copy, lstat, msg_out, eqres>>

\* damage: the value vector lost its last element, or all of them
TruncateValues ==
    /\ Editable
    /\ Len(bin.values) > 0
    /\ \E n \in {0, Len(bin.values) - 1} :
          bin' = [bin EXCEPT !.values = SubSeq(@, 1, n), !.edits = @ + 1]
    /\ UNCHANGED <<options, textVars, options_copy, lstat, msg_out, eqres>>

\* damage: reading the stream ends with its failbit set
BreakStream ==
    /\ lstat = "idle"
    /\ bin # EmptyStream
    /\ ~bin.fail
    /\ bin' = [bin EXCEPT !.fail = TRUE]
    /\ UNCHANGED <<options, textVars, options_copy, lstat, msg_out, eqres>>

\* options_copy.load(opt_in, msg_out, false)
Load ==
    /\ lstat = "idle"
    /\ LET r == load(options_copy, bin, msg_out)
       IN  /\ options_copy' = r.o
           /\ msg_out' = r.msgs
           /\ lstat' = IF r.exc = "none" THEN "loaded" ELSE r.exc
    /\ UNCHANGED <<options, textVars, bin, eqres>>

NextBinary ==
    \/ Store
    \/ InsertPair
    \/ RemoveLastPair
    \/ TruncateNames
    \/ TruncateValues
    \/ BreakStream
    \/ Load

SpecBinary == InitBinary /\ [][NextBinary]_vars

---------------------------------------------------------------------------
(* operator== as a state machine: two constructed records are compared     *)

InitEq ==
    /\ options \in EqRecords
    /\ pc = "constructed"
    /\ in = "good"
    /\ counter = 0
    /\ counter0 = 0
    /\ consumed = <<>>
    /\ bin = EmptyStream
    /\ options_copy \in EqRecords
    /\ lstat = "idle"
    /\ msg_out = <<>>
    /\ eqres = "none"

\* options == options_copy
Compare ==
    /\ eqres' = IF Equals(options, options_copy, FALSE) THEN "equal" ELSE "unequal"
    /\ UNCHANGED <<options, textVars, bin, options_copy, lstat, msg_out>>

\* options == options
CompareSelf ==
    /\ eqres' = IF Equals(options, options, TRUE) THEN "self-equal" ELSE "self-unequal"
    /\ UNCHANGED <<options, textVars, bin, options_copy, lstat, msg_out>>

NextEq == Compare \/ CompareSelf

SpecEq == InitEq /\ [][NextEq]_vars

---------------------------------------------------------------------------
(* Properties of the text parser (checked under SpecText)                  *)

LineAt(i) == ConfigLines[consumed[i]]

LastLine == LineAt(Len(consumed))

Thrown == pc \in {"SyntaxError", "NumericalRangeError"}

\* every line read so far is blank, a comment or a valid assignment
AllAccepted ==
    \A i \in DOMAIN consumed : LineAt(i).kind \in {"blank", "comment", "assign"}

\* no key is assigned on two lines
KeyOnce ==
    \A i, j \in DOMAIN consumed :
        (i # j /\ LineAt(i).kind = "assign" /\ LineAt(j).kind = "assign")
            => LineAt(i).key # LineAt(j).key

AssignedAt(i, f) == LineAt(i).kind = "assign" /\ LineAt(i).key = f

\* the defaults as the documentation lists them
DocumentedDefaults ==
    [estimator |-> AVG_PERC,
     inference |-> MAP,
     suffix_length |-> 10,
     degree |-> 2,
     max_train_passes |-> 50,
     max_lemmatizer_passes |-> 50,
     max_useless_passes |-> 3,
     guess_mass |-> FloatOf(0, 9900),
     beam |-> 0 - 1,
     beam_mass |-> FloatOf(0 - 1, 0),
     regularization |-> NONE,
     delta |-> FloatOf(0 - 1, 0),
     sigma |-> FloatOf(0 - 1, 0),
     use_label_dictionary |-> 1]

\* C1: when every line read is blank, a comment or a valid assignment and no
\* key is assigned twice, no exception is thrown, the constructor returns once
\* the input is exhausted, every assigned field holds the value given on its
\* line and every other field holds its documented default, whatever the
\* order of the lines (the empty input gives exactly the defaults).
C1_ValidInputGivesValuesAndDefaults ==
    (AllAccepted /\ KeyOnce) =>
        /\ ~Thrown
        /\ (in = "fail" => pc = "done")
        /\ \A f \in KnownFields :
              /\ \A i \in DOMAIN consumed :
                    AssignedAt(i, f) => options[f] = LineAt(i).val
              /\ (~ \E i \in DOMAIN consumed : AssignedAt(i, f))
                    => options[f] = DocumentedDefaults[f]

\* the constructor returned after a comment and two assignments, the negative
\* beam among them
C1_Witness ==
    /\ pc = "done"
    /\ AllAccepted /\ KeyOnce
    /\ \E i, j, k \in DOMAIN consumed :
          /\ i < j
          /\ AssignedAt(i, "guess_mass")
          /\ AssignedAt(j, "beam") /\ LineAt(j).val < 0
          /\ LineAt(k).kind = "comment"

C5_SyntaxErrorCountsFailingLine ==
    /\ \A i \in DOMAIN consumed :
          LineAt(i).kind = "nokey" =>
              /\ i = Len(consumed)
              /\ pc = "SyntaxError"
              /\ counter = counter0 + i
    /\ AllAccepted => ~Thrown

\* a blank line, an assignment, then the misspelled key
C5_Witness ==
    /\ pc = "SyntaxError"
    /\ Len(consumed) >= 3
    /\ LastLine.kind = "nokey"
    /\ \E i, j \in DOMAIN consumed :
          LineAt(i).kind = "blank" /\ LineAt(j).kind = "assign"
    /\ counter = counter0 + Len(consumed)

\* C6: a line giving a negative literal to suffix_length, degree,
\* max_train_passes, max_lemmatizer_passes, max_useless_passes,
\* use_label_dictionary or guess_mass is the last line read and the
\* constructor throws NumericalRangeError on it, so no record is produced.
C6_NegativeRejected ==
    \A i \in DOMAIN consumed :
        LineAt(i).kind = "negative" =>
            /\ i = Len(consumed)
            /\ pc = "NumericalRangeError"

\* suffix_length=-1 was read after an accepted line
C6_Witness ==
    /\ Len(consumed) >= 2
    /\ LastLine.kind = "negative"
    /\ LastLine.key = "suffix_length"
    /\ pc = "NumericalRangeError"

\* C9 as stated: when the constructor returns, the counter has grown by
\* exactly the number of lines of the input.
C9_CounterIsLineCount ==
    pc = "done" => counter = counter0 + Len(consumed)

---------------------------------------------------------------------------
(* Properties of operator== (checked under SpecEq)                         *)

\* every one of the fourteen fields is equal: the four float fields within
\* 0.001, the others exactly
AllFieldsEqual(a, b) ==
    \A f \in KnownFields :
        IF f \in FloatFields THEN float_eq(a[f], b[f]) ELSE a[f] = b[f]

\* C3 as stated: two records compare equal if and only if every one of the
\* fourteen fields is equal, max_useless_passes included.
C3_EqualIffAllFieldsEqual ==
    eqres \in {"equal", "unequal"} =>
        (eqres = "equal" <=> AllFieldsEqual(options, options_copy))

---------------------------------------------------------------------------
(* Properties of the binary codec (checked under SpecBinary)               *)

Positions(b) == DOMAIN b.names

SameLength(b) == Len(b.names) = Len(b.values)

\* the stream reached load as store wrote it, and load returned
RoundTrip == lstat = "loaded" /\ bin.edits = 0

\* the value load gives field f from the stored float v
Coerced(f, v) ==
    IF f \in FloatFields THEN v
    ELSE IF f = "use_label_dictionary" THEN (IF v.w = 0 THEN 0 ELSE 1)
    ELSE v.w

\* every integer field is a whole number a 32-bit float holds exactly, and no
\* float field is not-a-number
Representable(o) ==
    \A f \in KnownFields :
        IF f \in FloatFields THEN ~o[f].nan ELSE Abs(o[f]) <= 2 ^ 24

\* C4 as stated, on the records whose float fields are numbers: storing a
\* record and loading the output gives a record equal to it under operator==,
\* whatever its integer fields are.
C4_RoundTripAnyRecord ==
    (RoundTrip /\ \A f \in FloatFields : ~options[f].nan)
        => Equals(options, options_copy, FALSE)

\* C4 amended: the stored form pairs the fourteen names, in order, each with
\* the float of its own field; after storing and loading a record whose
\* integer fields are at most 2^24 in magnitude and whose float fields are
\* not NaN, the loaded record has the value of every field (negative beam and
\* the -1 sentinels included), compares equal, and no diagnostic is written.
C4_RoundTripRepresentable ==
    /\ (bin # EmptyStream /\ bin.edits = 0) =>
          /\ bin.names = FieldNames
          /\ Len(bin.values) = Len(FieldNames)
          /\ \A i \in DOMAIN FieldNames :
                bin.values[i] =
                    IF FieldNames[i] \in FloatFields THEN options[FieldNames[i]]
                    ELSE ToFloat(options[FieldNames[i]])
    /\ (RoundTrip /\ Representable(options)) =>
          /\ \A f \in KnownFields : options_copy[f] = options[f]
          /\ Equals(options, options_copy, FALSE)
          /\ msg_out = <<>>

\* a record with suffix_length 2^24, beam -1 and the -1 sentinels went
\* through store and load
C4_Witness ==
    /\ RoundTrip
    /\ Representable(options)
    /\ options.suffix_length = 2 ^ 24
    /\ options.beam < 0
    /\ options.delta = FloatOf(0 - 1, 0)
    /\ options_copy = options

\* C7: a stream read without failure whose two vectors have the same length
\* loads without exception; after the load the sink holds the unknown names,
\* one diagnostic each in stream order, and every known name's field holds
\* the value paired with that name; the load changes no field whose name the
\* stream does not hold.
C7_UnknownNamesTolerated ==
    /\ [](lstat # "idle" /\ ~bin.fail /\ SameLength(bin) => lstat = "loaded")
    /\ [](lstat = "loaded" =>
            /\ msg_out = SelectSeq(bin.names, LAMBDA n : n \notin KnownFields)
            /\ \A i \in Positions(bin) :
                  bin.names[i] \in KnownFields =>
                      options_copy[bin.names[i]] = Coerced(bin.names[i], bin.values[i]))
    /\ [][(lstat = "idle" /\ lstat' = "loaded") =>
            \A f \in KnownFields :
                (\A i \in Positions(bin) : bin.names[i] # f)
                    => options_copy'[f] = options_copy[f]]_vars

\* a stream with an unknown pair between known pairs was loaded
C7_Witness ==
    /\ lstat = "loaded"
    /\ Len(msg_out) >= 1
    /\ \E i, j, k \in Positions(bin) :
          /\ i < j /\ j < k
          /\ bin.names[i] \in KnownFields
          /\ bin.names[j] \notin KnownFields
          /\ bin.names[k] \in KnownFields
          /\ options_copy[bin.names[k]] # Coerced(bin.names[k], UnknownValue)

\* C8: a stream read without failure whose name vector and value vector
\* differ in length makes load throw BadBinary, whatever the two lengths.
C8_LengthMismatchIsBadBinary ==
    (lstat # "idle" /\ ~bin.fail /\ ~SameLength(bin)) => lstat = "BadBinary"

\* load threw BadBinary on a stream with no names and some values
C8_Witness ==
    /\ lstat = "BadBinary"
    /\ Len(bin.names) = 0
    /\ Len(bin.values) > 0

\* C10: load throws ReadFailed exactly when the stream failed, BadBinary
\* exactly when it did not fail and the lengths differ, and a load that
\* throws leaves every field of the record, and the sink, as they were.
C10_FailedLoadChangesNothing ==
    /\ [](lstat # "idle" =>
            /\ (lstat = "ReadFailed" <=> bin.fail)
            /\ (lstat = "BadBinary" <=> (~bin.fail /\ ~SameLength(bin))))
    /\ [][lstat' \in {"ReadFailed", "BadBinary"} =>
            (options_copy' = options_copy /\ msg_out' = msg_out)]_vars

\* load threw ReadFailed on a failed stream whose lengths differ as well
C10_Witness ==
    /\ lstat = "ReadFailed"
    /\ bin # EmptyStream
    /\ ~SameLength(bin)

Spec == SpecText

=============================================================================
